---- MODULE Spec2Model ----
(***************************************************************************)
(* Model of fit (src/fit.c): catalogue the regular files below the given   *)
(* paths, sort them by size descending with qsort, pack them first-fit on  *)
(* disks of disk_size, then count, print or link the disks.                *)
(*                                                                         *)
(* Sizes are off_t values (64 bit) counted in units of 2^30 bytes.  The    *)
(* comparator returns an int (32 bit), so a difference of sizes is reduced *)
(* modulo 2^32 bytes = IntModulus units; on multiples of the unit this is  *)
(* exact.  No off_t computation of the program leaves the 64 bit range for *)
(* the sizes considered, so off_t arithmetic is plain integer arithmetic.  *)
(***************************************************************************)
EXTENDS Integers, Sequences, FiniteSets

VARIABLES disk_size, do_link_disks, do_show_disk_count, do_recursive_collect,
          files, disks, id, pc, file_info_nr, disk_nr, entry, stdout,
          status, error, argv,
          cfg_files, cfg_verbose, item_nr, children, shuffle_pc, shuffle_status

(* the state of fit and the state of shuffle, two separate programs *)
fit_vars == << disk_size, do_link_disks, do_show_disk_count,
               do_recursive_collect, files, disks, id, pc, file_info_nr,
               disk_nr, entry, stdout, status, error, argv >>

shuffle_vars == << cfg_files, cfg_verbose, item_nr, children, shuffle_pc,
                   shuffle_status >>

vars == << disk_size, do_link_disks, do_show_disk_count, do_recursive_collect,
           files, disks, id, pc, file_info_nr, disk_nr, entry, stdout,
           status, error, argv,
           cfg_files, cfg_verbose, item_nr, children, shuffle_pc,
           shuffle_status >>

(* Largest disk size given with -s, in units. *)
MaxCap == 4

(* Largest number of files the catalogue takes. *)
MaxFiles == 3

(* Largest number of files shuffle finds. *)
MaxPlay == 3

(* main refuses more disks than this. *)
MaxDisks == 9999

(* 2^32 bytes, the range of the comparator's int result, in units. *)
IntModulus == 4

(* exit status of a process that has not exited *)
Running == -1

NoEntry == [filetype |-> "none", st_size |-> 0, level |-> 0]

(* a path given that nftw could not stat: nftw returns -1 and does not     *)
(* call collect for it                                                     *)
NotWalked == [filetype |-> "not_walked", st_size |-> 0, level |-> 0]

(* The options of a command line: -s with its number (has_s), -l, -n, -r,  *)
(* and an option getopt does not know, for which it returns '?'.           *)
Options ==
    {o \in [has_s : BOOLEAN, s : (-1)..MaxCap, l : BOOLEAN, n : BOOLEAN,
            r : BOOLEAN, unknown : BOOLEAN] : ~o.has_s => o.s = 0}

(* the options once the option loop has read them all *)
NoOptions == [has_s |-> FALSE, s |-> 0, l |-> FALSE, n |-> FALSE,
              r |-> FALSE, unknown |-> FALSE]

FileTypes == {"FTW_F", "FTW_D", "FTW_DNR", "FTW_NS", "FTW_SLN", "FTW_SL"}

(* What nftw can hand to collect: a file type, the size of a regular file, *)
(* and the depth below the path given (1: directly below, 2: deeper).      *)
Entries ==
    [filetype : {"FTW_F"}, st_size : 0..(MaxCap + 1), level : 1..2]
    \cup [filetype : FileTypes \ {"FTW_F"}, st_size : {0}, level : 1..2]

Range(s) == {s[i] : i \in 1..Len(s)}

RECURSIVE SumSizes(_)
SumSizes(fs) == IF fs = << >> THEN 0 ELSE Head(fs).size + SumSizes(Tail(fs))

(* conversion of an off_t value to int: the low 32 bits, two's complement *)
ToInt(x) == ((x + IntModulus \div 2) % IntModulus) - IntModulus \div 2

file_info_new(name, size) == [name |-> name, size |-> size]

(* disk_new handing out the id before counting *)
disk_new_postincrement(size, static_id) ==
    [files |-> << >>, free |-> size, id |-> static_id]

disk_new(size, static_id) == [files |-> << >>, free |-> size, id |-> static_id + 1]

(* disk_add_file testing the free space without the size of the file *)
disk_add_file_unchecked(disk, file_info) ==
    IF disk.free < 0
    THEN [added |-> FALSE, disk |-> disk]
    ELSE [added |-> TRUE,
          disk  |-> [disk EXCEPT !.files = Append(@, file_info),
                                 !.free  = @ - file_info.size]]

(* disk_add_file letting the free space fall one below nothing *)
disk_add_file_off_by_one(disk, file_info) ==
    IF disk.free - file_info.size < -1
    THEN [added |-> FALSE, disk |-> disk]
    ELSE [added |-> TRUE,
          disk  |-> [disk EXCEPT !.files = Append(@, file_info),
                                 !.free  = @ - file_info.size]]

(* disk_add_file forgetting to take the size from the free space *)
disk_add_file_no_decrement(disk, file_info) ==
    IF disk.free - file_info.size < 0
    THEN [added |-> FALSE, disk |-> disk]
    ELSE [added |-> TRUE,
          disk  |-> [disk EXCEPT !.files = Append(@, file_info)]]

disk_add_file(disk, file_info) ==
    IF disk.free - file_info.size < 0
    THEN [added |-> FALSE, disk |-> disk]
    ELSE [added |-> TRUE,
          disk  |-> [disk EXCEPT !.files = Append(@, file_info),
                                 !.free  = @ - file_info.size]]

by_file_size_descending(a, b) == ToInt(b.size - a.size)

(* The comparator orders the elements consistently, as qsort requires. *)
ConsistentOrder(S) ==
    /\ \A a, b \in S :
          /\ by_file_size_descending(a, b) < 0 <=> by_file_size_descending(b, a) > 0
          /\ by_file_size_descending(a, b) = 0 <=> by_file_size_descending(b, a) = 0
    /\ \A a, b, c \in S :
          by_file_size_descending(a, b) <= 0 /\ by_file_size_descending(b, c) <= 0
             => by_file_size_descending(a, c) <= 0

Arrangements(items) ==
    {p \in [1..Len(items) -> Range(items)] :
        \A i, j \in 1..Len(items) : i # j => p[i] # p[j]}

(* a sort that shifts the elements up and never puts the first back *)
qsort_clobber(items) ==
    {[i \in 1..Len(items) |-> items[IF i = 1 THEN 1 ELSE i - 1]]}

(* qsort: with a consistent comparator any arrangement that is in order    *)
(* under it (the order of elements that compare equal is unspecified);     *)
(* with an inconsistent one the behaviour is undefined, any arrangement.   *)
qsort(items) ==
    IF ConsistentOrder(Range(items))
    THEN {p \in Arrangements(items) :
             \A i, j \in 1..Len(items) :
                 i < j => by_file_size_descending(p[i], p[j]) <= 0}
    ELSE Arrangements(items)

RECURSIVE ScanDisks(_, _, _)

(* the inner loop running from the last disk to the first *)
RECURSIVE ScanDisksDown(_, _, _)
ScanDisksDown(ds, file, nr) ==
    IF nr < 1 THEN 0
    ELSE IF disk_add_file(ds[nr], file).added THEN nr
    ELSE ScanDisksDown(ds, file, nr - 1)

ScanDisks_backwards(ds, file, nr) == ScanDisksDown(ds, file, Len(ds))

(* the inner loop leaving out the last disk *)
RECURSIVE ScanDisksShort(_, _, _)
ScanDisksShort(ds, file, nr) ==
    IF nr >= Len(ds) THEN 0
    ELSE IF disk_add_file(ds[nr], file).added THEN nr
    ELSE ScanDisksShort(ds, file, nr + 1)

ScanDisks_short(ds, file, nr) == ScanDisksShort(ds, file, nr)

(* the inner loop of fit: the first disk that takes the file, 0 if none *)
ScanDisks(ds, file, nr) ==
    IF nr > Len(ds) THEN 0
    ELSE IF disk_add_file(ds[nr], file).added THEN nr
    ELSE ScanDisks(ds, file, nr + 1)

(* fit forgetting to add the new disk to the list *)
fit_file_lost(ds, static_id, file, size) ==
    LET nr == ScanDisks(ds, file, 1) IN
    IF nr # 0
    THEN [disks  |-> [ds EXCEPT ![nr] = disk_add_file(ds[nr], file).disk],
          id     |-> static_id,
          failed |-> FALSE]
    ELSE [disks |-> ds, id |-> static_id + 1, failed |-> FALSE]

(* fit never setting added, so that every file opens a disk as well *)
fit_file_unflagged(ds, static_id, file, size) ==
    LET nr  == ScanDisks(ds, file, 1)
        ds1 == IF nr # 0
               THEN [ds EXCEPT ![nr] = disk_add_file(ds[nr], file).disk]
               ELSE ds
        r   == disk_add_file(disk_new(size, static_id), file)
    IN  IF ~r.added
        THEN [disks |-> ds1, id |-> static_id + 1, failed |-> TRUE]
        ELSE [disks |-> Append(ds1, r.disk), id |-> static_id + 1,
              failed |-> FALSE]

(* one iteration of the outer loop of fit *)
fit_file(ds, static_id, file, size) ==
    LET nr == ScanDisks(ds, file, 1) IN
    IF nr # 0
    THEN [disks  |-> [ds EXCEPT ![nr] = disk_add_file(ds[nr], file).disk],
          id     |-> static_id,
          failed |-> FALSE]
    ELSE LET r == disk_add_file(disk_new(size, static_id), file) IN
         IF ~r.added
         THEN [disks |-> ds, id |-> static_id + 1, failed |-> TRUE]
         ELSE [disks |-> Append(ds, r.disk), id |-> static_id + 1,
               failed |-> FALSE]

(* the outer loop of fit over files sorted already, from an empty list *)
RECURSIVE fit_loop(_, _, _, _, _)
fit_loop(fs, nr, ds, static_id, size) ==
    IF nr > Len(fs) THEN [disks |-> ds, id |-> static_id, failed |-> FALSE]
    ELSE LET r == fit_file(ds, static_id, fs[nr], size) IN
         IF r.failed THEN r
         ELSE fit_loop(fs, nr + 1, r.disks, r.id, size)

(* collect: the test of the size of a regular file, off by one *)
can_never_fit_strict(st_size, size) == st_size >= size

(* collect: the test of the size of a regular file, one too lenient *)
can_never_fit_lenient(st_size, size) == st_size > size + 1

(* collect: the test of the size of a regular file *)
can_never_fit(st_size, size) == st_size > size

(* main: the test of the number of disks, off by one *)
too_many_disks_strict(ds) == Len(ds) >= MaxDisks

(* main: the test of the number of disks *)
too_many_disks(ds) == Len(ds) > MaxDisks

Exit(code, why) ==
    /\ pc' = "exit"
    /\ status' = code
    /\ error' = why

(* shuffle is not running *)
ShuffleIdle ==
    /\ cfg_files = << >>
    /\ cfg_verbose = FALSE
    /\ item_nr = 0
    /\ children = << >>
    /\ shuffle_pc = "idle"
    /\ shuffle_status = Running

Init ==
    /\ ShuffleIdle
    /\ disk_size = 0
    /\ do_link_disks = FALSE
    /\ do_show_disk_count = FALSE
    /\ do_recursive_collect = FALSE
    /\ files = << >>
    /\ disks = << >>
    /\ id = 0
    /\ pc = "getopt"
    /\ file_info_nr = 0
    /\ disk_nr = 0
    /\ entry = NoEntry
    /\ stdout = << >>
    /\ status = Running
    /\ error = "none"
    /\ argv \in [options : Options, npaths : 0..1]

(* main: the option loop and the check of the mandatory arguments *)
main_getopt ==
    /\ pc = "getopt"
    /\ LET o == argv.options IN
          /\ disk_size' = IF o.has_s THEN o.s ELSE disk_size
          /\ do_link_disks' = o.l
          /\ do_show_disk_count' = o.n
          /\ do_recursive_collect' = o.r
          /\ argv' = [argv EXCEPT !.options = NoOptions]
          /\ IF argv.npaths = 0 \/ disk_size' <= 0
             THEN Exit(1, "usage")
             ELSE /\ pc' = "nftw"
                  /\ UNCHANGED << status, error >>
    /\ UNCHANGED << files, disks, id, file_info_nr, disk_nr, entry, stdout,
                    shuffle_vars >>

(* main: nftw on a path it cannot stat returns -1 without a call of        *)
(* collect, and main does not look at what nftw returns                    *)
main_nftw_failed ==
    /\ pc = "nftw"
    /\ entry' = NotWalked
    /\ UNCHANGED << disk_size, do_link_disks, do_show_disk_count,
                    do_recursive_collect, files, disks, id, pc, file_info_nr,
                    disk_nr, stdout, status, error, argv,
                    shuffle_vars >>

(* collect: the callback nftw calls for one entry of the tree *)
collect ==
    /\ pc = "nftw"
    /\ UNCHANGED << argv, shuffle_vars >>
    /\ \E e \in Entries :
          /\ entry' = e
          /\ IF ~do_recursive_collect /\ e.level > 1
             THEN UNCHANGED << files, pc, status, error >>
             ELSE IF e.filetype \in {"FTW_NS", "FTW_SLN", "FTW_DNR"}
             THEN Exit(1, "access") /\ UNCHANGED files
             ELSE IF e.filetype = "FTW_D"
             THEN UNCHANGED << files, pc, status, error >>
             ELSE IF e.filetype # "FTW_F"
             THEN Exit(1, "notregular") /\ UNCHANGED files
             ELSE IF can_never_fit(e.st_size, disk_size)
             THEN Exit(1, "toobig") /\ UNCHANGED files
             ELSE /\ Len(files) < MaxFiles
                  /\ files' = Append(files, file_info_new(Len(files) + 1, e.st_size))
                  /\ UNCHANGED << pc, status, error >>
    /\ UNCHANGED << disk_size, do_link_disks, do_show_disk_count,
                    do_recursive_collect, disks, id, file_info_nr, disk_nr,
                    stdout >>

(* main: all paths walked *)
main_walked ==
    /\ pc = "nftw"
    /\ UNCHANGED << argv, shuffle_vars >>
    /\ entry' = NoEntry
    /\ IF Len(files) = 0
       THEN Exit(1, "nofiles")
       ELSE /\ pc' = "qsort"
            /\ UNCHANGED << status, error >>
    /\ UNCHANGED << disk_size, do_link_disks, do_show_disk_count,
                    do_recursive_collect, files, disks, id, file_info_nr,
                    disk_nr, stdout >>

(* fit: the sort *)
fit_qsort ==
    /\ pc = "qsort"
    /\ UNCHANGED << argv, shuffle_vars >>
    /\ \E p \in qsort(files) : files' = p
    /\ file_info_nr' = 0
    /\ pc' = "fit"
    /\ UNCHANGED << disk_size, do_link_disks, do_show_disk_count,
                    do_recursive_collect, disks, id, disk_nr, entry, stdout,
                    status, error >>

(* fit: one iteration of the loop over the files *)
fit_place ==
    /\ pc = "fit"
    /\ UNCHANGED << argv, shuffle_vars >>
    /\ file_info_nr < Len(files)
    /\ LET r == fit_file(disks, id, files[file_info_nr + 1], disk_size) IN
          /\ disks' = r.disks
          /\ id' = r.id
          /\ IF r.failed
             THEN Exit(1, "disk_add_file") /\ UNCHANGED file_info_nr
             ELSE /\ file_info_nr' = file_info_nr + 1
                  /\ pc' = IF file_info_nr + 1 = Len(files) THEN "check" ELSE "fit"
                  /\ UNCHANGED << status, error >>
    /\ UNCHANGED << disk_size, do_link_disks, do_show_disk_count,
                    do_recursive_collect, files, disk_nr, entry, stdout >>

(* main: the limit on the number of disks, and the -n output *)
main_check ==
    /\ pc = "check"
    /\ UNCHANGED << argv, shuffle_vars >>
    /\ IF too_many_disks(disks)
       THEN Exit(1, "toomany") /\ UNCHANGED << stdout, disk_nr >>
       ELSE IF do_show_disk_count
       THEN /\ stdout' = Append(stdout, [op |-> "count", arg |-> Len(disks), n |-> 0])
            /\ Exit(0, "none")
            /\ UNCHANGED disk_nr
       ELSE /\ pc' = "output"
            /\ disk_nr' = 0
            /\ UNCHANGED << stdout, status, error >>
    /\ UNCHANGED << disk_size, do_link_disks, do_show_disk_count,
                    do_recursive_collect, files, disks, id, file_info_nr,
                    entry >>

(* disk_link: the test of the id against the format of the directory name *)
number_too_big(disk) == disk.id > MaxDisks

(* what disk_print writes for a disk; what disk_link writes for a disk of  *)
(* which it linked the first n files                                       *)
Printed(disk) == [op |-> "print", arg |-> disk.id, n |-> Len(disk.files)]
Linked(disk, n) == [op |-> "link", arg |-> disk.id, n |-> n]

(* main: one iteration of the loop over the disks, disk_link or disk_print; *)
(* disk_link ends the run at the first link that fails                      *)
main_output ==
    /\ pc = "output"
    /\ UNCHANGED << argv, shuffle_vars >>
    /\ disk_nr < Len(disks)
    /\ LET disk == disks[disk_nr + 1] IN
          IF do_link_disks
          THEN IF number_too_big(disk)
               THEN Exit(1, "format") /\ UNCHANGED << stdout, disk_nr >>
               ELSE \E n \in 0..Len(disk.files) :
                       /\ stdout' = Append(stdout, Linked(disk, n))
                       /\ IF n < Len(disk.files)
                          THEN Exit(1, "link") /\ UNCHANGED disk_nr
                          ELSE /\ disk_nr' = disk_nr + 1
                               /\ UNCHANGED << pc, status, error >>
          ELSE /\ stdout' = Append(stdout, Printed(disk))
               /\ disk_nr' = disk_nr + 1
               /\ UNCHANGED << pc, status, error >>
    /\ UNCHANGED << disk_size, do_link_disks, do_show_disk_count,
                    do_recursive_collect, files, disks, id, file_info_nr,
                    entry >>

(* main: the clean up after the last disk *)
main_cleanup ==
    /\ pc = "output"
    /\ UNCHANGED << argv, shuffle_vars >>
    /\ disk_nr = Len(disks)
    /\ Exit(0, "none")
    /\ UNCHANGED << disk_size, do_link_disks, do_show_disk_count,
                    do_recursive_collect, files, disks, id, file_info_nr,
                    disk_nr, entry, stdout >>

Next ==
    \/ main_getopt
    \/ main_nftw_failed
    \/ collect
    \/ main_walked
    \/ fit_qsort
    \/ fit_place
    \/ main_check
    \/ main_output
    \/ main_cleanup

Spec == Init /\ [][Next]_vars

(* The state main is in when fit has returned for a catalogue of n files,  *)
(* each as large as the disk: n disks with one file each.                  *)
AfterFit(n, l, c) ==
    /\ ShuffleIdle
    /\ disk_size = 1
    /\ do_link_disks = l
    /\ do_show_disk_count = c
    /\ do_recursive_collect = FALSE
    /\ files = [i \in 1..n |-> file_info_new(i, 1)]
    /\ disks = [i \in 1..n |-> [files |-> << file_info_new(i, 1) >>,
                                free |-> 0, id |-> i]]
    /\ id = n
    /\ pc = "check"
    /\ file_info_nr = n
    /\ disk_nr = 0
    /\ entry = NoEntry
    /\ stdout = << >>
    /\ status = Running
    /\ error = "none"
    /\ argv = [options |-> NoOptions, npaths |-> 1]

InitLimit ==
    \E n \in {MaxDisks, MaxDisks + 1}, l, c \in BOOLEAN : AfterFit(n, l, c)

NextLimit ==
    \/ main_check
    \/ main_output
    \/ main_cleanup

(* the runs of main from the return of fit, around the limit on the disks *)
SpecLimit == InitLimit /\ [][NextLimit]_vars

(***************************************************************************)
(* shuffle (src/shuffle.c): the files found are shuffled and the command   *)
(* is run on each of them by playfile.  A file is its number in the order  *)
(* nftw found it.  children is the table of the processes shuffle forked,  *)
(* in the order of the forks: the file the child plays, how far the child  *)
(* is (forked, command: execvp succeeded, exited), whether it printed, its *)
(* exit status, and whether shuffle has waited for it.                     *)
(***************************************************************************)

(* fit is not running *)
FitIdle ==
    /\ disk_size = 0
    /\ do_link_disks = FALSE
    /\ do_show_disk_count = FALSE
    /\ do_recursive_collect = FALSE
    /\ files = << >>
    /\ disks = << >>
    /\ id = 0
    /\ pc = "idle"
    /\ file_info_nr = 0
    /\ disk_nr = 0
    /\ entry = NoEntry
    /\ stdout = << >>
    /\ status = Running
    /\ error = "none"
    /\ argv = [options |-> NoOptions, npaths |-> 0]

(* main when nftw has returned: the files collect found, -v given or not *)
InitShuffle ==
    /\ FitIdle
    /\ \E n \in 0..MaxPlay : cfg_files = [i \in 1..n |-> i]
    /\ cfg_verbose \in BOOLEAN
    /\ item_nr = 0
    /\ children = << >>
    /\ shuffle_pc = "found"
    /\ shuffle_status = Running

(* err(1, ...) and exit(1) in shuffle, return EXIT_SUCCESS from its main *)
ShuffleExit(code) ==
    /\ shuffle_pc' = "exit"
    /\ shuffle_status' = code

(* main: no files found is an error *)
main_found ==
    /\ shuffle_pc = "found"
    /\ IF Len(cfg_files) = 0
       THEN ShuffleExit(1)
       ELSE shuffle_pc' = "shuffle" /\ UNCHANGED shuffle_status
    /\ UNCHANGED << cfg_files, cfg_verbose, item_nr, children, fit_vars >>

(* vector_shuffle: swaps with random positions, any order can come out *)
vector_shuffle(items) == Arrangements(items)

(* main: shuffle the files, then vector_for_each starts at the first *)
main_shuffle ==
    /\ shuffle_pc = "shuffle"
    /\ \E p \in vector_shuffle(cfg_files) : cfg_files' = p
    /\ item_nr' = 0
    /\ shuffle_pc' = "for_each"
    /\ UNCHANGED << cfg_verbose, children, shuffle_status, fit_vars >>

(* the child fork returns 0 in *)
NewChild(filename) ==
    [file |-> filename, state |-> "forked", printed |-> FALSE,
     exit |-> Running, waited |-> FALSE]

(* playfile, the parent: fork made a child, the parent goes to wait *)
playfile_fork ==
    /\ shuffle_pc = "for_each"
    /\ item_nr < Len(cfg_files)
    /\ children' = Append(children, NewChild(cfg_files[item_nr + 1]))
    /\ shuffle_pc' = "wait"
    /\ UNCHANGED << cfg_files, cfg_verbose, item_nr, shuffle_status, fit_vars >>

(* playfile, the parent: fork returned -1 *)
playfile_fork_failed ==
    /\ shuffle_pc = "for_each"
    /\ item_nr < Len(cfg_files)
    /\ ShuffleExit(1)
    /\ UNCHANGED << cfg_files, cfg_verbose, item_nr, children, fit_vars >>

(* playfile, the child: print the file if verbose, execvp succeeds *)
child_execvp ==
    /\ \E p \in DOMAIN children :
          /\ children[p].state = "forked"
          /\ children' = [children EXCEPT ![p].state = "command",
                                          ![p].printed = cfg_verbose]
    /\ UNCHANGED << cfg_files, cfg_verbose, item_nr, shuffle_pc,
                    shuffle_status, fit_vars >>

(* playfile, the child: print the file if verbose, execvp fails, err(1) *)
child_execvp_failed ==
    /\ \E p \in DOMAIN children :
          /\ children[p].state = "forked"
          /\ children' = [children EXCEPT ![p].state = "exited",
                                          ![p].printed = cfg_verbose,
                                          ![p].exit = 1]
    /\ UNCHANGED << cfg_files, cfg_verbose, item_nr, shuffle_pc,
                    shuffle_status, fit_vars >>

(* the command the child became ends, with success or not *)
child_exits ==
    /\ \E p \in DOMAIN children, code \in 0..1 :
          /\ children[p].state = "command"
          /\ children' = [children EXCEPT ![p].state = "exited",
                                          ![p].exit = code]
    /\ UNCHANGED << cfg_files, cfg_verbose, item_nr, shuffle_pc,
                    shuffle_status, fit_vars >>

(* a wait that returns for a child that still runs *)
wait_running(ch) == {p \in DOMAIN ch : ~ch[p].waited}

(* wait(NULL): the children it can return for, those that have terminated  *)
(* and were not waited for; it blocks while there is none                  *)
wait(ch) == {p \in DOMAIN ch : ch[p].state = "exited" /\ ~ch[p].waited}

(* playfile, the parent: wait returns, playfile returns, and               *)
(* vector_for_each goes to the next file                                   *)
playfile_wait ==
    /\ shuffle_pc = "wait"
    /\ \E p \in wait(children) :
          children' = [children EXCEPT ![p].waited = TRUE]
    /\ item_nr' = item_nr + 1
    /\ shuffle_pc' = "for_each"
    /\ UNCHANGED << cfg_files, cfg_verbose, shuffle_status, fit_vars >>

(* main: vector_for_each has returned, clean up and return EXIT_SUCCESS *)
main_played ==
    /\ shuffle_pc = "for_each"
    /\ item_nr = Len(cfg_files)
    /\ ShuffleExit(0)
    /\ UNCHANGED << cfg_files, cfg_verbose, item_nr, children, fit_vars >>

NextShuffle ==
    \/ main_found
    \/ main_shuffle
    \/ playfile_fork
    \/ playfile_fork_failed
    \/ child_execvp
    \/ child_execvp_failed
    \/ child_exits
    \/ playfile_wait
    \/ main_played

(* the runs of shuffle from the return of nftw *)
SpecShuffle == InitShuffle /\ [][NextShuffle]_vars

----
(* fit has sorted the files *)
Sorted ==
    \/ pc \in {"fit", "check", "output"}
    \/ pc = "exit" /\ error \in {"none", "toomany", "format", "link", "disk_add_file"}

(* fit has returned *)
Fitted ==
    \/ pc \in {"check", "output"}
    \/ pc = "exit" /\ error \in {"none", "toomany", "format", "link"}

Frees(ds) == [i \in 1..Len(ds) |-> ds[i].free]

FitsOn(ds, file) == {i \in 1..Len(ds) : ds[i].free >= file.size}

(* C1: in every state the sizes of the files of each disk sum to at most   *)
(* the disk size, the files of the catalogue being between 0 and the disk  *)
(* size.                                                                   *)
C1_Capacity ==
    (\A i \in 1..Len(files) : 0 <= files[i].size /\ files[i].size <= disk_size)
    => \A i \in 1..Len(disks) : SumSizes(disks[i].files) <= disk_size

C1_Witness ==
    /\ pc = "exit" /\ status = 0
    /\ Len(disks) >= 2
    /\ \E i \in 1..Len(disks) :
          Len(disks[i].files) >= 2 /\ SumSizes(disks[i].files) = disk_size

(* C2: when fit has returned, every file of the catalogue is on exactly    *)
(* one disk, once, and the disks hold nothing else.                        *)
C2_Partition ==
    Fitted =>
       /\ \A k \in 1..Len(files) :
             Cardinality({ij \in {<<i, j>> \in (1..Len(disks)) \X (1..Len(files)) :
                                     j <= Len(disks[i].files)} :
                             disks[ij[1]].files[ij[2]] = files[k]}) = 1
       /\ \A i \in 1..Len(disks) : Range(disks[i].files) \subseteq Range(files)

C2_Witness ==
    /\ pc = "check"
    /\ Len(files) = MaxFiles
    /\ Len(disks) = 2

(* C3: every file goes to the first disk of the list with enough free      *)
(* space, and to a new disk at the end of the list only if no disk has.    *)
C3_FirstFit ==
    [][pc = "fit" =>
         LET file == files[file_info_nr + 1]
             fits == FitsOn(disks, file)
         IN  IF fits # {}
             THEN LET first == CHOOSE i \in fits : \A j \in fits : i <= j IN
                  /\ Len(disks') = Len(disks)
                  /\ disks'[first].files = Append(disks[first].files, file)
                  /\ disks'[first].free = disks[first].free - file.size
                  /\ \A i \in 1..Len(disks) : i # first => disks'[i] = disks[i]
             ELSE /\ Len(disks') = Len(disks) + 1
                  /\ \A i \in 1..Len(disks) : disks'[i] = disks[i]
                  /\ disks'[Len(disks')].files = << file >>
                  /\ disks'[Len(disks')].free = disk_size - file.size]_vars

(* a file went to the first disk while the second had room for it too *)
C3_Witness ==
    /\ pc = "check"
    /\ Len(disks) = 2
    /\ Len(disks[1].files) = 2
    /\ Len(disks[2].files) = 1
    /\ disks[2].free >= disks[1].files[2].size
    /\ disks[1].files[2].size > 0

(* C4: fit places the files in non-increasing order of size, and the sign  *)
(* of the comparator is the sign of b.size - a.size.                       *)
C4_Descending ==
    Sorted =>
       /\ \A i, j \in 1..Len(files) : i < j => files[i].size >= files[j].size
       /\ \A a, b \in Range(files) :
             /\ by_file_size_descending(a, b) < 0 <=> b.size - a.size < 0
             /\ by_file_size_descending(a, b) > 0 <=> b.size - a.size > 0

C7_SizesDecide ==
    pc = "check" =>
       \A c \in Arrangements(files) :
          \A q \in qsort(c) :
             Frees(fit_loop(q, 1, << >>, 0, disk_size).disks) = Frees(disks)

(* C8: the disk at place i of the list (from 1) has id i. *)
C8_Ids ==
    \A i \in 1..Len(disks) : disks[i].id = i

C8_Witness ==
    /\ pc = "exit" /\ status = 0
    /\ Len(disks) = MaxFiles

(* C9: with more than MaxDisks disks the run ends with status 1 and has    *)
(* written nothing, in every output mode; with MaxDisks disks or fewer it  *)
(* is not ended for the number of disks: it ends with status 0, or for a   *)
(* link that failed.                                                       *)
C9_Limit ==
    /\ Fitted /\ pc # "check" /\ Len(disks) > MaxDisks
          => pc = "exit" /\ status = 1 /\ error = "toomany" /\ stdout = << >>
    /\ Fitted /\ Len(disks) <= MaxDisks
          => /\ error \notin {"toomany", "format"}
             /\ pc = "exit" => status = 0 \/ error = "link"
             /\ pc = "exit" /\ status = 0 =>
                   Len(stdout) = IF do_show_disk_count THEN 1 ELSE Len(disks)

C9_Witness ==
    /\ Len(disks) = MaxDisks + 1
    /\ pc = "exit"
    /\ status = 1
    /\ error = "toomany"

(* a regular file handed to collect that it looks at *)
Examined(e) ==
    /\ e.filetype = "FTW_F"
    /\ do_recursive_collect \/ e.level <= 1

(* a disk with a file as large as the disk has no free space *)
FullSizeFiles ==
    \A i \in 1..Len(disks) :
       \A j \in 1..Len(disks[i].files) :
          disks[i].files[j].size = disk_size
             => /\ disks[i].free = 0
                /\ \A k \in 1..Len(disks[i].files) :
                      k # j => disks[i].files[k].size = 0

(* C10, as claimed: collect ends the run, before any disk is made, for     *)
(* every regular file larger than the disk and takes every other regular   *)
(* file into the catalogue; a file as large as the disk leaves its disk    *)
(* with no free space.                                                     *)
C10_Validation ==
    /\ [][pc = "nftw" /\ entry'.filetype = "FTW_F" =>
            IF entry'.st_size > disk_size
            THEN pc' = "exit" /\ status' = 1 /\ disks' = << >>
            ELSE /\ files' = Append(files, [name |-> Len(files) + 1,
                                            size |-> entry'.st_size])
                 /\ pc' = "nftw"]_vars
    /\ [](\A i \in 1..Len(disks) :
             \A j \in 1..Len(disks[i].files) :
                disks[i].files[j].size = disk_size => disks[i].free = 0)

(* C10, amended: the same of the regular files collect looks at, which     *)
(* without -r are those at most one level below a path given; the disk of  *)
(* a file as large as the disk has no free space and otherwise only files  *)
(* of size 0.                                                              *)
C10_Examined ==
    /\ [][pc = "nftw" /\ Examined(entry') =>
            IF entry'.st_size > disk_size
            THEN pc' = "exit" /\ status' = 1 /\ disks' = << >>
            ELSE /\ files' = Append(files, [name |-> Len(files) + 1,
                                            size |-> entry'.st_size])
                 /\ pc' = "nftw"]_vars
    /\ []FullSizeFiles

C10_Witness ==
    /\ pc = "exit"
    /\ error = "toobig"
    /\ Examined(entry)
    /\ entry.st_size = disk_size + 1
    /\ Len(files) >= 1
    /\ disks = << >>

(* what the catalogue does not take: a path given that cannot be walked,   *)
(* or, of the entries collect looks at, one that cannot be accessed, one   *)
(* that is neither a regular file nor a directory, or a regular file       *)
(* larger than the disk                                                    *)
CatalogueError(e) ==
    \/ e = NotWalked
    \/ /\ e.filetype \in FileTypes
       /\ do_recursive_collect \/ e.level <= 1
       /\ \/ e.filetype \notin {"FTW_F", "FTW_D"}
          \/ e.filetype = "FTW_F" /\ e.st_size > disk_size

(* C11: a catalogue error ends the run at once with a failure status, and  *)
(* no disk has been made, printed or linked, whatever was catalogued       *)
(* before.                                                                 *)
C11_CatalogueErrors ==
    [][pc = "nftw" /\ CatalogueError(entry') =>
          /\ pc' = "exit"
          /\ status' = 1
          /\ disks' = << >>
          /\ stdout' = << >>]_vars

(* a command line main is to refuse *)
UsageError(a) ==
    \/ a.options.unknown
    \/ a.npaths = 0
    \/ ~a.options.has_s
    \/ a.options.s <= 0

(* C12: with an unknown option, no path, no -s or a size that is not       *)
(* positive, main prints the usage and exits with failure, and nothing is  *)
(* catalogued, packed, printed or linked.                                  *)
C12_Usage ==
    [][pc = "getopt" /\ UsageError(argv) =>
          /\ pc' = "exit"
          /\ status' = 1
          /\ error' = "usage"
          /\ files' = << >>
          /\ disks' = << >>
          /\ stdout' = << >>]_vars

(* C13, as claimed: placing a file of size 0 never makes a new disk. *)
C13_EmptyNeverOpens ==
    [][pc = "fit" /\ files[file_info_nr + 1].size = 0 =>
          Len(disks') = Len(disks)]_vars

(* C13, amended: placing a file of size 0 makes a new disk only when there *)
(* is no disk yet; otherwise it goes to the first disk.                    *)
C13_EmptyOpensFirstOnly ==
    [][pc = "fit" /\ files[file_info_nr + 1].size = 0 =>
          IF disks = << >>
          THEN Len(disks') = 1
          ELSE /\ Len(disks') = Len(disks)
               /\ disks'[1].files = Append(disks[1].files,
                                           files[file_info_nr + 1])]_vars

(* a file of size 0 went to a disk that was full *)
C13_Witness ==
    /\ pc = "check"
    /\ Len(disks) = 1
    /\ Len(disks[1].files) = 2
    /\ disks[1].files[1].size = disk_size
    /\ disks[1].files[2].size = 0

(* C14, as claimed: a disk whose free space is 0 gets no further file. *)
C14_FullTerminal ==
    [][\A i \in 1..Len(disks) :
          disks[i].free = 0 => disks'[i].files = disks[i].files]_vars

(* C14, amended: a disk whose free space is 0 keeps free space 0 and gets  *)
(* no further file but files of size 0.                                    *)
C14_FullTakesEmptyOnly ==
    [][\A i \in 1..Len(disks) :
          disks[i].free = 0 =>
             /\ disks'[i].free = 0
             /\ \/ disks'[i].files = disks[i].files
                \/ /\ files[file_info_nr + 1].size = 0
                   /\ disks'[i].files = Append(disks[i].files,
                                               files[file_info_nr + 1])]_vars

(* three files as large as the disk are on three disks *)
C14_Witness ==
    /\ pc = "check"
    /\ Len(disks) = 3
    /\ \A i \in 1..3 :
          /\ disks[i].free = 0
          /\ Len(disks[i].files) = 1
          /\ disks[i].files[1].size = disk_size

(* the children of shuffle that exist: running, or terminated and not yet  *)
(* waited for                                                              *)
Existing(ch) == {p \in DOMAIN ch : ch[p].state # "exited" \/ ~ch[p].waited}

(* the number of children shuffle forked for a file *)
Invocations(ch, filename) ==
    Cardinality({p \in DOMAIN ch : ch[p].file = filename})

C16_NoAddFailure ==
    /\ error # "disk_add_file"
    /\ pc = "fit" =>
          disk_add_file(disk_new(disk_size, id), files[file_info_nr + 1]).added

(* a disk was made for a file as large as the disk, after another disk *)
C16_Witness ==
    /\ pc = "check"
    /\ Len(disks) = 2
    /\ Len(disks[2].files) = 1
    /\ disks[2].files[1].size = disk_size
    /\ disks[1].free > 0

(* C17: a disk starts with the disk size free; its free space is the disk  *)
(* size less the sizes of its files and is not negative; it never grows;   *)
(* a disk that does not take a file stays as it is.                        *)
C17_FreeSpace ==
    /\ [](/\ disk_new(disk_size, id).free = disk_size
          /\ \A i \in 1..Len(disks) :
                /\ disks[i].free = disk_size - SumSizes(disks[i].files)
                /\ disks[i].free >= 0)
    /\ [][\A i \in 1..Len(disks) :
             /\ disks'[i].free <= disks[i].free
             /\ pc = "fit" /\ disks[i].free < files[file_info_nr + 1].size
                   => disks'[i] = disks[i]]_vars

(* the first disk did not take the file the second was made for *)
C17_Witness ==
    /\ pc = "check"
    /\ Len(disks) = 2
    /\ disks[1].free > 0
    /\ disks[1].free < disks[2].files[1].size
    /\ Len(disks[2].files) = 2

(* C18: the used space of any two disks together exceeds the disk size. *)
C18_NoMerge ==
    \A i, j \in 1..Len(disks) :
       i # j => (disk_size - disks[i].free) + (disk_size - disks[j].free) > disk_size

C18_Witness ==
    /\ pc = "exit" /\ status = 0
    /\ Len(disks) = 3
    /\ \E i, j \in 1..3 :
          i # j /\ (disk_size - disks[i].free) + (disk_size - disks[j].free)
                      = disk_size + 1

====
